---------------------------- MODULE Spec2Model ----------------------------
(***************************************************************************)
(* A model of oscq_rs: the OSCQuery address tree (OSCNode::root, add, get), *)
(* its serializers and the OscHostInfo builder of                           *)
(* src/src/oscquery_types.rs, the unit codec of src/src/oscunit.rs and the  *)
(* request handler of src/src/service.rs.                                   *)
(*                                                                         *)
(* Strings that the code splits, joins or concatenates are sequences of    *)
(* one-character strings ("/a/b" is <<"/", "a", "/", "b">>).  Option<T> is  *)
(* a sequence of length at most one: None is <<>>, Some(x) is <<x>>.  A     *)
(* BTreeMap is a function whose domain is its key set.  f32 values are the  *)
(* integers that they hold.                                                *)
(***************************************************************************)
EXTENDS Integers, Sequences, FiniteSets, TLC

VARIABLES
    root,     \* the OSCNode tree owned by the caller of OSCNode::root
    hist,     \* the OscQueryParameters consumed by OSCNode::add so far, in order
    lookup,   \* the last call of OSCNode::get on the root: its path and its result
    unit_in,  \* unit codec: Option of the OSCUnit last serialized
    unit_str, \* unit codec: Option of the string last serialized or handed to decode
    unit_res, \* unit codec: Option of the result of the last deserialize
    ser,      \* the last serde_json serialization of a node of the tree: its path and its outcome
    type_str, \* type codec: Option of the TYPE string handed to osc_type_deserialize
    type_res, \* type codec: Option of the result of osc_type_deserialize
    type_enc, \* type codec: Option of the outcome of osc_type_serialize on the decoded values
    host,     \* the OscHostInfo under construction by OscHostInfo::new and with_ext_*
    host_args, \* the (name, ip, port) that OscHostInfo::new was called with
    host_calls, \* the names of the with_ext_* operations called so far
    conns     \* service: for each connection task, its request in flight and its last response

vars == <<root, hist, lookup, unit_in, unit_str, unit_res, ser,
          type_str, type_res, type_enc, host, host_args, host_calls, conns>>

treeVars == <<root, hist, lookup, ser>>

unitVars == <<unit_in, unit_str, unit_res>>

typeVars == <<type_str, type_res, type_enc>>

hostVars == <<host, host_args, host_calls>>

(* What the operations on the tree, the unit codec, the type codec, the *)
(* builder and the service leave alone.                                 *)
notTree == <<unitVars, typeVars, hostVars, conns>>

notUnit == <<treeVars, typeVars, hostVars, conns>>

notType == <<treeVars, unitVars, hostVars, conns>>

notHost == <<treeVars, unitVars, typeVars, conns>>

notServe == <<hist, lookup, ser, unitVars, typeVars, hostVars>>

-----------------------------------------------------------------------------
(* Option<T> *)

None == <<>>

Some(x) == <<x>>

(* str::split(sep): the pieces between the separators, at least one piece. *)
RECURSIVE Split(_, _)
Split(s, sep) ==
    IF \A i \in 1..Len(s) : s[i] # sep
    THEN <<s>>
    ELSE LET i == CHOOSE k \in 1..Len(s) :
                      s[k] = sep /\ \A j \in 1..(k - 1) : s[j] # sep
         IN  <<SubSeq(s, 1, i - 1)>> \o Split(SubSeq(s, i + 1, Len(s)), sep)

(* [&str]::concat(): the pieces one after the other. *)
RECURSIVE Concat(_)
Concat(parts) ==
    IF parts = <<>> THEN <<>> ELSE Head(parts) \o Concat(Tail(parts))

(* [&str]::join(sep): the pieces with sep between them. *)
RECURSIVE Join(_, _)
Join(parts, sep) ==
    IF parts = <<>> THEN <<>>
    ELSE IF Len(parts) = 1 THEN Head(parts)
    ELSE Head(parts) \o <<sep>> \o Join(Tail(parts), sep)

(* BTreeMap::new() and BTreeMap::insert(key, value) *)
BTreeMap_new == [k \in {} |-> None]

BTreeMap_insert(m, key, value) ==
    [k \in (DOMAIN m) \cup {key} |-> IF k = key THEN value ELSE m[k]]

-----------------------------------------------------------------------------
(* OscQueryParameter and its builder *)

OscQueryParameter_new(addr, value) ==
    [description |-> <<>>, address |-> addr, value |-> value,
     access |-> None, range |-> None, unit |-> None]

with_access(p, access) == [p EXCEPT !.access = Some(access)]

with_unit(p, u) == [p EXCEPT !.unit = Some(u)]

with_min_max(p, min, max) == [p EXCEPT !.range = Some([Min |-> min, Max |-> max])]

with_description(p, description) == [p EXCEPT !.description = description]

(* OscHostInfo::new: transport "UDP", every extension flag false. *)
OscHostInfoExtension_default ==
    [access |-> FALSE, value |-> FALSE, range |-> FALSE, description |-> FALSE,
     tags |-> FALSE, extended_type |-> FALSE, unit |-> FALSE, critical |-> FALSE,
     clipmode |-> FALSE, listen |-> FALSE, path_changed |-> FALSE]

OscHostInfo_new(device_name, osc_ip, osc_port) ==
    [name |-> device_name, osc_ip |-> osc_ip, osc_port |-> osc_port,
     osc_trans |-> "UDP", extension |-> OscHostInfoExtension_default]

with_ext_clipmode_SetsCritical(self) == [self EXCEPT !.extension.critical = TRUE]

with_ext_access(self) == [self EXCEPT !.extension.access = TRUE]

with_ext_clipmode(self) == [self EXCEPT !.extension.clipmode = TRUE]

with_ext_critical(self) == [self EXCEPT !.extension.critical = TRUE]

with_ext_description(self) == [self EXCEPT !.extension.description = TRUE]

with_ext_extended_type(self) == [self EXCEPT !.extension.extended_type = TRUE]

with_ext_listen(self) == [self EXCEPT !.extension.listen = TRUE]

with_ext_path_changed(self) == [self EXCEPT !.extension.path_changed = TRUE]

with_ext_range(self) == [self EXCEPT !.extension.range = TRUE]

with_ext_tags(self) == [self EXCEPT !.extension.tags = TRUE]

with_ext_unit(self) == [self EXCEPT !.extension.unit = TRUE]

with_ext_value(self) == [self EXCEPT !.extension.value = TRUE]

-----------------------------------------------------------------------------
(* OSCNode *)

OSCNode_root(host_info) ==
    [description |-> <<>>, full_path |-> <<"/">>, access |-> Some("NoAcces"),
     contents |-> None, osc_type |-> None, value |-> None, range |-> None,
     unit |-> None, host_info |-> host_info]

(* NewEmptyNode that makes the new node readable. *)
NewEmptyNode_Read(next_addr) ==
    [description |-> <<>>, full_path |-> next_addr, access |-> Some("Read"),
     contents |-> None, osc_type |-> None, value |-> None, range |-> None,
     unit |-> None, host_info |-> None]

(* The node that add_recursion creates for a key that is not there yet. *)
NewEmptyNode(next_addr) ==
    [description |-> <<>>, full_path |-> next_addr, access |-> Some("NoAcces"),
     contents |-> None, osc_type |-> None, value |-> None, range |-> None,
     unit |-> None, host_info |-> None]

(* EnsureContents without the is_none test: the map is made anew each time. *)
EnsureContents_Reset(self) == BTreeMap_new

(* if self.contents.is_none() { self.contents = Some(BTreeMap::new()) } *)
EnsureContents(self) ==
    IF self.contents = None THEN BTreeMap_new ELSE self.contents[1]

(* if !contains_key(&key) { insert(key, new empty node at full_path + key) } *)
EnsureChild(self, contents, key) ==
    IF key \notin DOMAIN contents
    THEN BTreeMap_insert(contents, key, NewEmptyNode(self.full_path \o key))
    ELSE contents

(* PushType that replaces the vector instead of pushing to it. *)
PushType_Replace(self, parameter) == Some(<<parameter.value>>)

(* match &mut self.osc_type { Some(v) => v.push(x), None => Some(vec![x]) } *)
PushType(self, parameter) ==
    IF self.osc_type # None
    THEN Some(Append(self.osc_type[1], parameter.value))
    ELSE Some(<<parameter.value>>)

(* if let Some(unit) = parameter.unit { push it, or make the vector } *)
PushUnit(self, parameter) ==
    IF parameter.unit # None
    THEN IF self.unit # None
         THEN Some(Append(self.unit[1], parameter.unit[1]))
         ELSE Some(<<parameter.unit[1]>>)
    ELSE self.unit

(* if let Some(range) = parameter.range { push it, or make the vector } *)
PushRange(self, parameter) ==
    IF parameter.range # None
    THEN IF self.range # None
         THEN Some(Append(self.range[1], parameter.range[1]))
         ELSE Some(<<parameter.range[1]>>)
    ELSE self.range

(* PushValue that drops the parameter's value when the vector is there. *)
PushValue_NoPush(self, parameter) ==
    IF self.value # None THEN self.value ELSE Some(<<parameter.value>>)

(* match &mut self.value { Some(v) => v.push(x), None => Some(vec![x]) } *)
PushValue(self, parameter) ==
    IF self.value # None
    THEN Some(Append(self.value[1], parameter.value))
    ELSE Some(<<parameter.value>>)

(* InsertHere that keeps a description and an access that are already set. *)
InsertHere_KeepsMetadata(self, parameter) ==
    [self EXCEPT !.description = IF @ = <<>> THEN parameter.description ELSE @,
                 !.access = IF @ = None THEN parameter.access ELSE @,
                 !.full_path = parameter.address,
                 !.osc_type = PushType(self, parameter),
                 !.unit = PushUnit(self, parameter),
                 !.range = PushRange(self, parameter),
                 !.value = PushValue(self, parameter)]

(* The base case of add_recursion: no address part is left. *)
InsertHere(self, parameter) ==
    [self EXCEPT !.description = parameter.description,
                 !.access = parameter.access,
                 !.full_path = parameter.address,
                 !.osc_type = PushType(self, parameter),
                 !.unit = PushUnit(self, parameter),
                 !.range = PushRange(self, parameter),
                 !.value = PushValue(self, parameter)]

RECURSIVE add_recursion(_, _, _)
add_recursion(self, parameter, addr) ==
    IF addr # <<>>
    THEN LET key == Head(addr)
             contents == EnsureChild(self, EnsureContents(self), key)
             child == add_recursion(contents[key], parameter, Tail(addr))
         IN  [self EXCEPT !.contents = Some(BTreeMap_insert(contents, key, child))]
    ELSE InsertHere(self, parameter)

(* OSCNode::add: split the address at '/', drop the first piece, recurse. *)
add(self, parameter) ==
    add_recursion(self, parameter, Tail(Split(parameter.address, "/")))

(* Result<&OSCNode, OscError> *)
Ok(node) == [ok |-> TRUE, node |-> Some(node), err |-> None]

BadAddress(path) == [ok |-> FALSE, node |-> None, err |-> Some(path)]

(* get without the test next_node.is_empty() *)
RECURSIVE get_NoEmptyTest(_, _)
get_NoEmptyTest(self, path) ==
    LET addr0 == Split(path, "/")
    IN  IF addr0 # <<>>
        THEN LET addr == Tail(addr0)
             IN  IF addr # <<>>
                 THEN LET next_node == Head(addr)
                      IN  IF self.contents = None THEN BadAddress(path)
                          ELSE IF next_node \notin DOMAIN self.contents[1]
                               THEN BadAddress(path)
                          ELSE get_NoEmptyTest(self.contents[1][next_node],
                                               Join(addr, "/"))
                 ELSE Ok(self)
        ELSE Ok(self)

RECURSIVE get(_, _)
get(self, path) ==
    LET addr0 == Split(path, "/")
    IN  IF addr0 # <<>>
        THEN LET addr == Tail(addr0)
             IN  IF addr # <<>>
                 THEN LET next_node == Head(addr)
                      IN  IF next_node = <<>> THEN Ok(self)
                          ELSE IF self.contents = None THEN BadAddress(path)
                          ELSE IF next_node \notin DOMAIN self.contents[1]
                               THEN BadAddress(path)
                          ELSE get(self.contents[1][next_node], Join(addr, "/"))
                 ELSE Ok(self)
        ELSE Ok(self)

-----------------------------------------------------------------------------
(* OSCUnit: the five categories, their members, Display and Deserialize *)

OSCDistance ==
    {"Meter", "Kilometer", "Decimeter", "Centimeter", "Millimeter",
     "Micrometer", "Nanometer", "Picometer", "Inches", "Feet", "Miles",
     "Pixels"}

OSCAngle ==
    {"Degree", "Radian"}

OSCGain ==
    {"Linear", "Midigain", "Db", "DbRaw"}

OSCTime ==
    {"Second", "Bark", "Bpm", "Cents", "Hz", "Mel", "Midinote",
     "Millisecond", "Speed", "Samples"}

OSCSpeed ==
    {"MetersPerSeconds", "MilesPerHour", "KilometersPerHour", "Knots",
     "FeetPerSecond", "FeetPerHour", "PixelsPerSecond"}

OSCUnit ==
    {[cat |-> "Distance", member |-> m] : m \in OSCDistance}
    \cup {[cat |-> "Angle", member |-> m] : m \in OSCAngle}
    \cup {[cat |-> "Gain", member |-> m] : m \in OSCGain}
    \cup {[cat |-> "Time", member |-> m] : m \in OSCTime}
    \cup {[cat |-> "Speed", member |-> m] : m \in OSCSpeed}

Unit(cat, member) == [cat |-> cat, member |-> member]

(* impl Display for OSCDistance *)
OSCDistance_fmt(d) ==
    CASE d = "Meter"              -> <<"m">>                                  \* "m"
      [] d = "Kilometer"          -> <<"k", "m">>                             \* "km"
      [] d = "Decimeter"          -> <<"d", "m">>                             \* "dm"
      [] d = "Centimeter"         -> <<"c", "m">>                             \* "cm"
      [] d = "Millimeter"         -> <<"m", "m">>                             \* "mm"
      [] d = "Micrometer"         -> <<"u", "m">>                             \* "um"
      [] d = "Nanometer"          -> <<"n", "m">>                             \* "nm"
      [] d = "Picometer"          -> <<"p", "m">>                             \* "pm"
      [] d = "Inches"             -> <<"i", "n", "c", "h">>                   \* "inch"
      [] d = "Feet"               -> <<"f", "e", "e", "t">>                   \* "feet"
      [] d = "Miles"              -> <<"m", "i", "l", "e">>                   \* "mile"
      [] d = "Pixels"             -> <<"p", "i", "x", "e", "l", "s">>         \* "pixels"

(* impl Display for OSCAngle *)
OSCAngle_fmt(a) ==
    CASE a = "Degree"             -> <<"d", "e", "g", "r", "e", "e">>         \* "degree"
      [] a = "Radian"             -> <<"r", "a", "d", "i", "a", "n">>         \* "radian"

(* OSCGain's table with DbRaw written as "db", the "-raw" suffix forgotten. *)
OSCGain_fmt_NoRawSuffix(g) ==
    CASE g = "Linear"             -> <<"l", "i", "n", "e", "a", "r">>         \* "linear"
      [] g = "Midigain"           -> <<"m", "i", "d", "i", "g", "a", "i", "n">> \* "midigain"
      [] g = "Db"                 -> <<"d", "b">>                             \* "db"
      [] g = "DbRaw"              -> <<"d", "b">>                             \* "db"

(* impl Display for OSCGain *)
OSCGain_fmt(g) ==
    CASE g = "Linear"             -> <<"l", "i", "n", "e", "a", "r">>         \* "linear"
      [] g = "Midigain"           -> <<"m", "i", "d", "i", "g", "a", "i", "n">> \* "midigain"
      [] g = "Db"                 -> <<"d", "b">>                             \* "db"
      [] g = "DbRaw"              -> <<"d", "b", "-", "r", "a", "w">>         \* "db-raw"

(* impl Display for OSCTime *)
OSCTime_fmt(t) ==
    CASE t = "Second"             -> <<"s", "e", "c", "o", "n", "d">>         \* "second"
      [] t = "Bark"               -> <<"b", "a", "r", "k">>                   \* "bark"
      [] t = "Bpm"                -> <<"b", "p", "m">>                        \* "bpm"
      [] t = "Cents"              -> <<"c", "e", "n", "t", "s">>              \* "cents"
      [] t = "Hz"                 -> <<"h", "z">>                             \* "hz"
      [] t = "Mel"                -> <<"m", "e", "l">>                        \* "mel"
      [] t = "Midinote"           -> <<"m", "i", "d", "i", "n", "o", "t", "e">> \* "midinote"
      [] t = "Millisecond"        -> <<"m", "s">>                             \* "ms"
      [] t = "Speed"              -> <<"s", "p", "e", "e", "d">>              \* "speed"
      [] t = "Samples"            -> <<"s", "a", "m", "p", "l", "e", "s">>    \* "samples"

(* impl Display for OSCSpeed *)
OSCSpeed_fmt(s) ==
    CASE s = "MetersPerSeconds"   -> <<"m", "/", "s">>                        \* "m/s"
      [] s = "MilesPerHour"       -> <<"m", "p", "h">>                        \* "mph"
      [] s = "KilometersPerHour"  -> <<"k", "m", "/", "h">>                   \* "km/h"
      [] s = "Knots"              -> <<"k", "n", "o", "t", "s">>              \* "knots"
      [] s = "FeetPerSecond"      -> <<"f", "t", "/", "s">>                   \* "ft/s"
      [] s = "FeetPerHour"        -> <<"f", "t", "/", "h">>                   \* "ft/h"
      [] s = "PixelsPerSecond"    -> <<"p", "i", "x", "/", "s">>              \* "pix/s"

(* impl Display for OSCUnit: "<category>.<member>" *)
OSCUnit_fmt(self) ==
    CASE self.cat = "Distance" -> <<"d", "i", "s", "t", "a", "n", "c", "e", ".">> \o OSCDistance_fmt(self.member)
      [] self.cat = "Angle"    -> <<"a", "n", "g", "l", "e", ".">> \o OSCAngle_fmt(self.member)
      [] self.cat = "Gain"     -> <<"g", "a", "i", "n", ".">> \o OSCGain_fmt(self.member)
      [] self.cat = "Time"     -> <<"t", "i", "m", "e", ".">> \o OSCTime_fmt(self.member)
      [] self.cat = "Speed"    -> <<"s", "p", "e", "e", "d", ".">> \o OSCSpeed_fmt(self.member)

(* impl Serialize for OSCUnit: serialize_str(format!("{}", self)) *)
OSCUnit_serialize(self) == OSCUnit_fmt(self)

(* Result<OSCUnit, D::Error>; the error is serde's unknown_variant(variant, expected). *)
UnitOk(u) == [ok |-> TRUE, unit |-> Some(u), variant |-> None, expected |-> <<>>]

unknown_variant(variant, expected) ==
    [ok |-> FALSE, unit |-> None, variant |-> Some(variant), expected |-> expected]

(* The arm ["distance", unit] of OSCUnit::deserialize *)
OSCDistance_from(unit) ==
    CASE unit = <<"m">>                                  -> UnitOk(Unit("Distance", "Meter"))  \* "m"
      [] unit = <<"k", "m">>                             -> UnitOk(Unit("Distance", "Kilometer"))  \* "km"
      [] unit = <<"d", "m">>                             -> UnitOk(Unit("Distance", "Decimeter"))  \* "dm"
      [] unit = <<"c", "m">>                             -> UnitOk(Unit("Distance", "Centimeter"))  \* "cm"
      [] unit = <<"m", "m">>                             -> UnitOk(Unit("Distance", "Millimeter"))  \* "mm"
      [] unit = <<"u", "m">>                             -> UnitOk(Unit("Distance", "Micrometer"))  \* "um"
      [] unit = <<"n", "m">>                             -> UnitOk(Unit("Distance", "Nanometer"))  \* "nm"
      [] unit = <<"p", "m">>                             -> UnitOk(Unit("Distance", "Picometer"))  \* "pm"
      [] unit = <<"i", "n", "c", "h", "e", "s">>         -> UnitOk(Unit("Distance", "Inches"))  \* "inches"
      [] unit = <<"f", "e", "e", "t">>                   -> UnitOk(Unit("Distance", "Feet"))  \* "feet"
      [] unit = <<"m", "i", "l", "e", "s">>              -> UnitOk(Unit("Distance", "Miles"))  \* "miles"
      [] unit = <<"p", "i", "x", "e", "l", "s">>         -> UnitOk(Unit("Distance", "Pixels"))  \* "pixels"
      [] OTHER -> unknown_variant(unit,
            <<<<"m">>,
              <<"k", "m">>,
              <<"d", "m">>,
              <<"c", "m">>,
              <<"m", "m">>,
              <<"u", "m">>,
              <<"n", "m">>,
              <<"p", "m">>,
              <<"i", "n", "c", "h", "e", "s">>,
              <<"f", "e", "e", "t">>,
              <<"m", "i", "l", "e", "s">>,
              <<"p", "i", "x", "e", "l", "s">>>>)

(* The arm ["angle", unit] of OSCUnit::deserialize *)
OSCAngle_from(unit) ==
    CASE unit = <<"d", "e", "g", "r", "e", "e">>         -> UnitOk(Unit("Angle", "Degree"))  \* "degree"
      [] unit = <<"r", "a", "d", "i", "a", "n">>         -> UnitOk(Unit("Angle", "Radian"))  \* "radian"
      [] OTHER -> unknown_variant(unit,
            <<<<"d", "e", "g", "r", "e", "e">>,
              <<"r", "a", "d", "i", "a", "n">>>>)

(* The arm ["gain", unit] of OSCUnit::deserialize *)
OSCGain_from(unit) ==
    CASE unit = <<"l", "i", "n", "e", "a", "r">>         -> UnitOk(Unit("Gain", "Linear"))  \* "linear"
      [] unit = <<"m", "i", "d", "i", "g", "a", "i", "n">> -> UnitOk(Unit("Gain", "Midigain"))  \* "midigain"
      [] unit = <<"d", "b">>                             -> UnitOk(Unit("Gain", "Db"))  \* "db"
      [] unit = <<"d", "b", "-", "r", "a", "w">>         -> UnitOk(Unit("Gain", "DbRaw"))  \* "db-raw"
      [] OTHER -> unknown_variant(unit,
            <<<<"l", "i", "n", "e", "a", "r">>,
              <<"m", "i", "d", "i", "g", "a", "i", "n">>,
              <<"d", "b">>,
              <<"d", "b", "-", "r", "a", "w">>>>)

(* The arm ["time", unit] of OSCUnit::deserialize *)
OSCTime_from(unit) ==
    CASE unit = <<"s", "e", "c", "o", "n", "d">>         -> UnitOk(Unit("Time", "Second"))  \* "second"
      [] unit = <<"b", "a", "r", "k">>                   -> UnitOk(Unit("Time", "Bark"))  \* "bark"
      [] unit = <<"b", "p", "m">>                        -> UnitOk(Unit("Time", "Bpm"))  \* "bpm"
      [] unit = <<"c", "e", "n", "t", "s">>              -> UnitOk(Unit("Time", "Cents"))  \* "cents"
      [] unit = <<"h", "z">>                             -> UnitOk(Unit("Time", "Hz"))  \* "hz"
      [] unit = <<"m", "e", "l">>                        -> UnitOk(Unit("Time", "Mel"))  \* "mel"
      [] unit = <<"m", "i", "d", "i", "n", "o", "t", "e">> -> UnitOk(Unit("Time", "Midinote"))  \* "midinote"
      [] unit = <<"m", "s">>                             -> UnitOk(Unit("Time", "Millisecond"))  \* "ms"
      [] unit = <<"s", "p", "e", "e", "d">>              -> UnitOk(Unit("Time", "Speed"))  \* "speed"
      [] unit = <<"s", "a", "m", "p", "l", "e", "s">>    -> UnitOk(Unit("Time", "Samples"))  \* "samples"
      [] OTHER -> unknown_variant(unit,
            <<<<"s", "e", "c", "o", "n", "d">>,
              <<"b", "a", "r", "k">>,
              <<"b", "p", "m">>,
              <<"c", "e", "n", "t", "s">>,
              <<"h", "z">>,
              <<"m", "e", "l">>,
              <<"m", "i", "d", "i", "n", "o", "t", "e">>,
              <<"m", "s">>,
              <<"s", "p", "e", "e", "d">>,
              <<"s", "a", "m", "p", "l", "e", "s">>>>)

(* The arm ["speed", unit] of OSCUnit::deserialize *)
OSCSpeed_from(unit) ==
    CASE unit = <<"m", "/", "s">>                        -> UnitOk(Unit("Speed", "MetersPerSeconds"))  \* "m/s"
      [] unit = <<"m", "p", "h">>                        -> UnitOk(Unit("Speed", "MilesPerHour"))  \* "mph"
      [] unit = <<"k", "m", "/", "h">>                   -> UnitOk(Unit("Speed", "KilometersPerHour"))  \* "km/h"
      [] unit = <<"k", "n">>                             -> UnitOk(Unit("Speed", "Knots"))  \* "kn"
      [] unit = <<"f", "t", "/", "s">>                   -> UnitOk(Unit("Speed", "FeetPerSecond"))  \* "ft/s"
      [] unit = <<"f", "t", "/", "h">>                   -> UnitOk(Unit("Speed", "FeetPerHour"))  \* "ft/h"
      [] unit = <<"p", "i", "x", "/", "s">>              -> UnitOk(Unit("Speed", "PixelsPerSecond"))  \* "pix/s"
      [] OTHER -> unknown_variant(unit,
            <<<<"m", "/", "s">>,
              <<"m", "p", "h">>,
              <<"k", "m", "/", "h">>,
              <<"k", "n">>,
              <<"f", "t", "/", "s">>,
              <<"f", "t", "/", "h">>>>)

(* The expected list of the last arm of OSCUnit::deserialize *)
UnitCategoriesExpected ==
    <<<<"d", "i", "s", "t", "a", "n", "c", "e", ".", "<", ".", ".", ">">>,
      <<"a", "n", "g", "l", "e", "<", ".", ".", ">">>,
      <<"g", "a", "i", "n", "<", ".", ".", ">">>,
      <<"t", "i", "m", "e", "<", ".", ".", ">">>,
      <<"s", "p", "e", "e", "d", "<", ".", ".", ">">>>>

(* impl Deserialize for OSCUnit: split at '.', match on the slice of parts. *)
OSCUnit_deserialize(s) ==
    LET parts == Split(s, ".")
    IN  IF Len(parts) = 2 /\ parts[1] = <<"d", "i", "s", "t", "a", "n", "c", "e">>
        THEN OSCDistance_from(parts[2])
        ELSE IF Len(parts) = 2 /\ parts[1] = <<"a", "n", "g", "l", "e">>
        THEN OSCAngle_from(parts[2])
        ELSE IF Len(parts) = 2 /\ parts[1] = <<"g", "a", "i", "n">>
        THEN OSCGain_from(parts[2])
        ELSE IF Len(parts) = 2 /\ parts[1] = <<"t", "i", "m", "e">>
        THEN OSCTime_from(parts[2])
        ELSE IF Len(parts) = 2 /\ parts[1] = <<"s", "p", "e", "e", "d">>
        THEN OSCSpeed_from(parts[2])
        ELSE unknown_variant(Concat(parts), UnitCategoriesExpected)

(* Strings handed to OSCUnit::deserialize: every string of its tables, the *)
(* strings Display produces, and strings that match no arm.                *)
DecodeTableStrings ==
    {
     <<"d", "i", "s", "t", "a", "n", "c", "e", ".", "m">>,
     <<"d", "i", "s", "t", "a", "n", "c", "e", ".", "k", "m">>,
     <<"d", "i", "s", "t", "a", "n", "c", "e", ".", "d", "m">>,
     <<"d", "i", "s", "t", "a", "n", "c", "e", ".", "c", "m">>,
     <<"d", "i", "s", "t", "a", "n", "c", "e", ".", "m", "m">>,
     <<"d", "i", "s", "t", "a", "n", "c", "e", ".", "u", "m">>,
     <<"d", "i", "s", "t", "a", "n", "c", "e", ".", "n", "m">>,
     <<"d", "i", "s", "t", "a", "n", "c", "e", ".", "p", "m">>,
     <<"d", "i", "s", "t", "a", "n", "c", "e", ".", "i", "n", "c", "h", "e", "s">>,
     <<"d", "i", "s", "t", "a", "n", "c", "e", ".", "f", "e", "e", "t">>,
     <<"d", "i", "s", "t", "a", "n", "c", "e", ".", "m", "i", "l", "e", "s">>,
     <<"d", "i", "s", "t", "a", "n", "c", "e", ".", "p", "i", "x", "e", "l", "s">>,
     <<"a", "n", "g", "l", "e", ".", "d", "e", "g", "r", "e", "e">>,
     <<"a", "n", "g", "l", "e", ".", "r", "a", "d", "i", "a", "n">>,
     <<"g", "a", "i", "n", ".", "l", "i", "n", "e", "a", "r">>,
     <<"g", "a", "i", "n", ".", "m", "i", "d", "i", "g", "a", "i", "n">>,
     <<"g", "a", "i", "n", ".", "d", "b">>,
     <<"g", "a", "i", "n", ".", "d", "b", "-", "r", "a", "w">>,
     <<"t", "i", "m", "e", ".", "s", "e", "c", "o", "n", "d">>,
     <<"t", "i", "m", "e", ".", "b", "a", "r", "k">>,
     <<"t", "i", "m", "e", ".", "b", "p", "m">>,
     <<"t", "i", "m", "e", ".", "c", "e", "n", "t", "s">>,
     <<"t", "i", "m", "e", ".", "h", "z">>,
     <<"t", "i", "m", "e", ".", "m", "e", "l">>,
     <<"t", "i", "m", "e", ".", "m", "i", "d", "i", "n", "o", "t", "e">>,
     <<"t", "i", "m", "e", ".", "m", "s">>,
     <<"t", "i", "m", "e", ".", "s", "p", "e", "e", "d">>,
     <<"t", "i", "m", "e", ".", "s", "a", "m", "p", "l", "e", "s">>,
     <<"s", "p", "e", "e", "d", ".", "m", "/", "s">>,
     <<"s", "p", "e", "e", "d", ".", "m", "p", "h">>,
     <<"s", "p", "e", "e", "d", ".", "k", "m", "/", "h">>,
     <<"s", "p", "e", "e", "d", ".", "k", "n">>,
     <<"s", "p", "e", "e", "d", ".", "f", "t", "/", "s">>,
     <<"s", "p", "e", "e", "d", ".", "f", "t", "/", "h">>,
     <<"s", "p", "e", "e", "d", ".", "p", "i", "x", "/", "s">>}

MalformedUnitStrings ==
    {
     <<"b", "o", "g", "u", "s", ".", "x">>,
     <<"i", "n", "v", "a", "l", "i", "d", ".", "s", "t", "r", "i", "n", "g">>,
     <<"d", "i", "s", "t", "a", "n", "c", "e", ".", "x">>,
     <<"s", "p", "e", "e", "d", ".", "x">>,
     <<"g", "a", "i", "n", ".", "d", "B">>,
     <<"d", "i", "s", "t", "a", "n", "c", "e">>,
     <<"d", "i", "s", "t", "a", "n", "c", "e", ".">>,
     <<>>,
     <<"d", "i", "s", "t", "a", "n", "c", "e", ".", "m", ".", "s">>,
     <<"t", "i", "m", "e", ".", "b", "o", "g", "u", "s">>}

DisplayStrings == {OSCUnit_fmt(u) : u \in OSCUnit}

DecodeInputs == DecodeTableStrings \cup MalformedUnitStrings \cup DisplayStrings


-----------------------------------------------------------------------------
(* rosc::OscType values and the serializers of OSCNode's fields *)

OscType(kind, payload) == [kind |-> kind, payload |-> payload]

(* One arm of the match in osc_type_serialize: the tag of a value's kind. *)
TypeTag(osc_type) ==
    CASE osc_type.kind = "Int"    -> "i"
      [] osc_type.kind = "Float"  -> "f"
      [] osc_type.kind = "String" -> "s"
      [] osc_type.kind = "Blob"   -> "b"
      [] osc_type.kind = "Time"   -> "t"
      [] osc_type.kind = "Long"   -> "l"
      [] osc_type.kind = "Double" -> "d"
      [] osc_type.kind = "Char"   -> "c"
      [] osc_type.kind = "Color"  -> "r"
      [] osc_type.kind = "Midi"   -> "m"
      [] osc_type.kind = "Bool"   -> "T"
      [] osc_type.kind = "Nil"    -> "N"
      [] osc_type.kind = "Inf"    -> "I"

(* osc_type_serialize on Some(v): the tags of v, one after the other. *)
osc_type_serialize(v) == [i \in 1..Len(v) |-> TypeTag(v[i])]

(* osc_type_serialize reaches todo!() and panics on an Array value. *)
osc_type_serialize_todo(v) == \E i \in 1..Len(v) : v[i].kind = "Array"

(* osc_value_serialize reaches todo!() and panics on a value of these kinds. *)
osc_value_serialize_todo(values) ==
    \E i \in 1..Len(values) :
        values[i].kind \in {"Time", "Color", "Midi", "Array", "Nil", "Inf"}

(* osc_value_serialize on Some(values) of the other kinds: the payload of *)
(* each value, in order.                                                 *)
osc_value_serialize(values) == [i \in 1..Len(values) |-> values[i].payload]

(* The outcome of a serializer: it completes with a result, or it reaches *)
(* todo!() and the thread that called it panics.                          *)
Completed(out) == [panic |-> FALSE, out |-> Some(out)]

Panicked == [panic |-> TRUE, out |-> None]

(* The expected variants that osc_type_deserialize lists in its error *)
TypeTags == <<"i", "f", "s", "b", "t", "l", "d", "c", "r", "m", "T", "N", "I">>

(* The characters that have an arm of their own in the match of *)
(* osc_type_deserialize.                                         *)
TypeArms == {"i", "f", "s", "b", "t", "l", "d", "c", "r", "m", "T", "N", "I"}

Placeholder_DoubleAsFloat(char) ==
    CASE char = "d" -> OscType("Float", 0)
      [] OTHER      -> OscType("Int", 0)

(* One arm of the match in osc_type_deserialize: the value pushed for a    *)
(* tag.  The seconds of OscTime::from((2_208_988_800, 0)) do not fit 32    *)
(* bits and are kept as their decimal text; Nil and Inf carry no payload.  *)
Placeholder(char) ==
    CASE char = "i" -> OscType("Int", 0)
      [] char = "f" -> OscType("Float", 0)
      [] char = "s" -> OscType("String", <<>>)
      [] char = "b" -> OscType("Blob", <<>>)
      [] char = "t" -> OscType("Time", [seconds |-> "2208988800", fractional |-> 0])
      [] char = "l" -> OscType("Long", 0)
      [] char = "d" -> OscType("Double", 0)
      [] char = "c" -> OscType("Char", " ")
      [] char = "r" -> OscType("Color", [red |-> 0, green |-> 0, blue |-> 0, alpha |-> 0])
      [] char = "m" -> OscType("Midi", [port |-> 0, status |-> 0, data1 |-> 0, data2 |-> 0])
      [] char = "T" -> OscType("Bool", TRUE)
      [] char = "N" -> OscType("Nil", None)
      [] char = "I" -> OscType("Inf", None)

(* Result<Option<Vec<OscType>>, D::Error> *)
TypeOk(vec) ==
    [ok |-> TRUE, vec |-> Some(vec), variant |-> None, expected |-> <<>>,
     custom |-> None]

Type_unknown_variant(variant, expected) ==
    [ok |-> FALSE, vec |-> None, variant |-> Some(variant), expected |-> expected,
     custom |-> None]

Type_custom(msg) ==
    [ok |-> FALSE, vec |-> None, variant |-> None, expected |-> <<>>,
     custom |-> Some(msg)]

(* The loop over s.chars() of osc_type_deserialize: s is what is left of *)
(* the string, vec the values pushed so far.                             *)
RECURSIVE DecodeTags(_, _)
DecodeTags(s, vec) ==
    IF s = <<>> THEN TypeOk(vec)
    ELSE IF Head(s) \in TypeArms
         THEN DecodeTags(Tail(s), Append(vec, Placeholder(Head(s))))
    ELSE Type_unknown_variant(Head(s), TypeTags)

osc_type_deserialize_NoEmptyCheck(s) == DecodeTags(s, <<>>)

osc_type_deserialize(s) ==
    IF s # <<>> THEN DecodeTags(s, <<>>)
    ELSE Type_custom("Invalid OSC Type")

(* #[repr(u8)] of OSCAccess, written by Serialize_repr *)
OSCAccess_repr(access) ==
    CASE access = "NoAcces"   -> 0
      [] access = "Read"      -> 1
      [] access = "Write"     -> 2
      [] access = "ReadWrite" -> 3

(* A BTreeMap<OscRangeBounds, f32> as a JSON object, keys in the order of the enum. *)
Range_serialize(range) ==
    (IF "Min" \in DOMAIN range THEN << <<"MIN", range.Min>> >> ELSE <<>>)
    \o (IF "Max" \in DOMAIN range THEN << <<"MAX", range.Max>> >> ELSE <<>>)
    \o (IF "Discrete" \in DOMAIN range THEN << <<"VALS", range.Discrete>> >> ELSE <<>>)

OscHostInfoExtension_serialize(e) ==
    << <<"ACCESS", e.access>>, <<"VALUE", e.value>>, <<"RANGE", e.range>>,
       <<"DESCRIPTION", e.description>>, <<"TAGS", e.tags>>,
       <<"EXTENDED_TYPE", e.extended_type>>, <<"UNIT", e.unit>>,
       <<"CRITICAL", e.critical>>, <<"CLIPMODE", e.clipmode>>,
       <<"LISTEN", e.listen>>, <<"PATH_CHANGED", e.path_changed>> >>

OscHostInfo_serialize(h) ==
    << <<"NAME", h.name>>, <<"OSC_IP", h.osc_ip>>, <<"OSC_PORT", h.osc_port>>,
       <<"OSC_TRANSPORT", h.osc_trans>>,
       <<"EXTENSIONS", OscHostInfoExtension_serialize(h.extension)>> >>

(* The byte of a character of an address, which orders the keys of a BTreeMap. *)
CharByte(c) ==
    CASE c = "/" -> 47
      [] c = "a" -> 97
      [] c = "b" -> 98

(* Ord for String: byte-wise lexicographic. *)
RECURSIVE StrLess(_, _)
StrLess(s, t) ==
    IF t = <<>> THEN FALSE
    ELSE IF s = <<>> THEN TRUE
    ELSE IF CharByte(Head(s)) # CharByte(Head(t))
         THEN CharByte(Head(s)) < CharByte(Head(t))
    ELSE StrLess(Tail(s), Tail(t))

(* The keys of a BTreeMap in the order its iterator yields them. *)
RECURSIVE BTreeMap_keys(_)
BTreeMap_keys(keys) ==
    IF keys = {} THEN <<>>
    ELSE LET first == CHOOSE k \in keys : \A other \in keys \ {k} : StrLess(k, other)
         IN  <<first>> \o BTreeMap_keys(keys \ {first})

(* #[derive(Serialize)] for OSCNode: a JSON object as the sequence of its   *)
(* <<key, value>> members in the order of the struct's fields; a field that *)
(* is None is skipped, except DESCRIPTION and FULL_PATH, which are no       *)
(* Options.                                                                 *)
RECURSIVE OSCNode_serialize(_)
OSCNode_serialize(node) ==
    << <<"DESCRIPTION", node.description>>, <<"FULL_PATH", node.full_path>> >>
    \o (IF node.access # None
        THEN << <<"ACCESS", OSCAccess_repr(node.access[1])>> >> ELSE <<>>)
    \o (IF node.contents # None
        THEN LET m == node.contents[1]
                 keys == BTreeMap_keys(DOMAIN m)
             IN  << <<"CONTENTS",
                      [i \in 1..Len(keys) |-> <<keys[i], OSCNode_serialize(m[keys[i]])>>]>> >>
        ELSE <<>>)
    \o (IF node.osc_type # None
        THEN << <<"TYPE", osc_type_serialize(node.osc_type[1])>> >> ELSE <<>>)
    \o (IF node.value # None
        THEN << <<"VALUE", osc_value_serialize(node.value[1])>> >> ELSE <<>>)
    \o (IF node.range # None
        THEN << <<"RANGE", [i \in 1..Len(node.range[1]) |->
                               Range_serialize(node.range[1][i])]>> >>
        ELSE <<>>)
    \o (IF node.unit # None
        THEN << <<"UNIT", [i \in 1..Len(node.unit[1]) |->
                              OSCUnit_serialize(node.unit[1][i])]>> >>
        ELSE <<>>)
    \o (IF node.host_info # None
        THEN << <<"HOST_INFO", OscHostInfo_serialize(node.host_info[1])>> >> ELSE <<>>)

(* Serializing a node reaches todo!() when osc_type_serialize or           *)
(* osc_value_serialize does so on the node or on a node of its CONTENTS.   *)
RECURSIVE OSCNode_serialize_todo(_)
OSCNode_serialize_todo(node) ==
    \/ node.osc_type # None /\ osc_type_serialize_todo(node.osc_type[1])
    \/ node.value # None /\ osc_value_serialize_todo(node.value[1])
    \/ /\ node.contents # None
       /\ \E key \in DOMAIN node.contents[1] :
              OSCNode_serialize_todo(node.contents[1][key])

(* serde_json::to_string(node) / serde_json::to_value(node) *)
serde_json_to_value(node) ==
    IF OSCNode_serialize_todo(node) THEN Panicked
    ELSE Completed(OSCNode_serialize(node))

(* serde_json::Value::get(key) on an object: Some(member) or None *)
JsonGet(object, key) ==
    IF \E i \in 1..Len(object) : object[i][1] = key
    THEN Some(object[CHOOSE i \in 1..Len(object) : object[i][1] = key][2])
    ELSE None

-----------------------------------------------------------------------------
(* The tree seen from outside: positions are sequences of child keys. *)

RECURSIVE Positions(_)
Positions(node) ==
    {<<>>} \cup
    (IF node.contents = None THEN {}
     ELSE UNION {{<<k>> \o pos : pos \in Positions(node.contents[1][k])} :
                    k \in DOMAIN node.contents[1]})

RECURSIVE NodeAt(_, _)
NodeAt(node, pos) ==
    IF pos = <<>> THEN node ELSE NodeAt(node.contents[1][Head(pos)], Tail(pos))

(* The channels of a node: the vector of an Option<Vec<T>>, empty when None. *)
Vec(opt) == IF opt = None THEN <<>> ELSE opt[1]

IsPrefix(s, t) == Len(s) <= Len(t) /\ SubSeq(t, 1, Len(s)) = s

-----------------------------------------------------------------------------
(* Inputs *)

MaxInserts == 3

(* Addresses of the form the data model describes: a leading '/', then *)
(* non-empty segments separated by single '/'.                         *)
WellFormedAddresses ==
    {<<"/", "a">>,                                  \* "/a"
     <<"/", "b">>,                                  \* "/b"
     <<"/", "a", "/", "b">>,                        \* "/a/b"
     <<"/", "a", "/", "b", "/", "a", "/", "b">>}    \* "/a/b/a/b"

(* Other strings, which OscQueryParameter::new accepts as well. *)
OtherAddresses ==
    {<<"/">>,                                       \* "/"
     <<"/", "a", "/">>,                             \* "/a/"
     <<"/", "/", "a">>,                             \* "//a"
     <<"b", "/", "a">>}                             \* "b/a"

Addresses == WellFormedAddresses \cup OtherAddresses

(* Parameters as a caller builds them (lib.rs readme_example, add_parameters). *)
Plain(addr) == OscQueryParameter_new(addr, OscType("Float", 1))

Full(addr) ==
    with_unit(
        with_access(
            with_min_max(
                with_description(OscQueryParameter_new(addr, OscType("Float", 2)),
                                 <<"d">>),
                0, 10),
            "ReadWrite"),
        Unit("Distance", "Centimeter"))

WithUnitOnly(addr) ==
    with_access(
        with_unit(OscQueryParameter_new(addr, OscType("Int", 3)),
                  Unit("Speed", "KilometersPerHour")),
        "Read")

WellFormedParameters ==
    {Plain(a) : a \in WellFormedAddresses}
    \cup {Full(<<"/", "a">>)}
    \cup {WithUnitOnly(<<"/", "a">>)}

Parameters == WellFormedParameters \cup {Plain(a) : a \in OtherAddresses}

LookupPaths ==
    Addresses \cup {<<>>,                           \* ""
                    <<"/", "a", "/", "a">>,         \* "/a/a"
                    <<"/", "b", "/", "a">>}         \* "/b/a"

(* The host information of lib.rs readme_example *)
HostInfo == OscHostInfo_new("Server", "127.0.0.1", 9000)

-----------------------------------------------------------------------------
(* The tree: OSCNode::root, then OSCNode::add and OSCNode::get on the root *)

NoLookup == None

TreeInit ==
    /\ root = OSCNode_root(Some(HostInfo))
    /\ hist = <<>>
    /\ lookup = NoLookup
    /\ ser = None

UnitIdle ==
    /\ unit_in = None
    /\ unit_str = None
    /\ unit_res = None

TypeIdle ==
    /\ type_str = None
    /\ type_res = None
    /\ type_enc = None

(* No OscHostInfo is under construction: the root carries HostInfo. *)
HostIdle ==
    /\ host = HostInfo
    /\ host_args = <<"Server", "127.0.0.1", 9000>>
    /\ host_calls = {}

(* No connection has been accepted. *)
ServeIdle == conns = <<>>

Init == TreeInit /\ UnitIdle /\ TypeIdle /\ HostIdle /\ ServeIdle

(* root.add(parameter) *)
Insert(parameter) ==
    /\ Len(hist) < MaxInserts
    /\ root' = add(root, parameter)
    /\ hist' = Append(hist, parameter)
    /\ lookup' = NoLookup
    /\ ser' = None
    /\ UNCHANGED notTree

(* root.get(path) *)
Lookup(path) ==
    /\ lookup' = Some([path |-> path, result |-> get(root, path)])
    /\ UNCHANGED <<root, hist, ser, notTree>>

Next ==
    \/ \E parameter \in Parameters : Insert(parameter)
    \/ \E path \in LookupPaths : Lookup(path)

Spec == Init /\ [][Next]_vars

(* The same program fed well-formed addresses only. *)
NextAddr ==
    \/ \E parameter \in WellFormedParameters : Insert(parameter)
    \/ \E path \in LookupPaths : Lookup(path)

SpecAddr == Init /\ [][NextAddr]_vars

-----------------------------------------------------------------------------
(* The unit codec: serde_json::to_string(&unit) and from_str::<OSCUnit>(s) *)

UnitSerialize(u) ==
    /\ unit_in' = Some(u)
    /\ unit_str' = Some(OSCUnit_serialize(u))
    /\ unit_res' = None
    /\ UNCHANGED notUnit

UnitInput(s) ==
    /\ unit_in' = None
    /\ unit_str' = Some(s)
    /\ unit_res' = None
    /\ UNCHANGED notUnit

UnitDeserialize ==
    /\ unit_str # None
    /\ unit_res = None
    /\ unit_res' = Some(OSCUnit_deserialize(unit_str[1]))
    /\ UNCHANGED <<unit_in, unit_str, notUnit>>

UnitNext ==
    \/ \E u \in OSCUnit : UnitSerialize(u)
    \/ \E s \in DecodeInputs : UnitInput(s)
    \/ UnitDeserialize

SpecUnit == Init /\ [][UnitNext]_vars

-----------------------------------------------------------------------------
(* Serialization: parameters of every kind of value are added to the root, *)
(* and serde_json serializes a node that OSCNode::get found                *)

WithRangeOnly(addr) ==
    with_min_max(OscQueryParameter_new(addr, OscType("Float", 1)), 0, 10)

(* One parameter at "/a" for each kind of value that has a tag, the       *)
(* builders' combinations at "/a", and two parameters below "/a".         *)
EncodeParameters ==
    [i \in 1..Len(TypeTags) |->
        OscQueryParameter_new(<<"/", "a">>, Placeholder(TypeTags[i]))]
    \o << Full(<<"/", "a">>),
          WithUnitOnly(<<"/", "a">>),
          WithRangeOnly(<<"/", "a">>),
          Plain(<<"/", "a", "/", "b">>),
          OscQueryParameter_new(<<"/", "a", "/", "b">>, OscType("Nil", None)) >>

EncodePaths == {<<"/">>, <<"/", "a">>, <<"/", "a", "/", "b">>}

(* serde_json::to_string(root.get(path).unwrap()) *)
Serialize(path) ==
    /\ get(root, path).ok
    /\ ser' = Some([path |-> path,
                    outcome |-> serde_json_to_value(get(root, path).node[1])])
    /\ UNCHANGED <<root, hist, lookup, notTree>>

EncodeNext ==
    \/ \E i \in 1..Len(EncodeParameters) : Insert(EncodeParameters[i])
    \/ \E path \in EncodePaths : Serialize(path)

SpecEncode == Init /\ [][EncodeNext]_vars

-----------------------------------------------------------------------------
(* The service: run_oscquery_service(root, address) has put the tree into  *)
(* an Arc; the accept loop spawns one task per connection, each with a     *)
(* clone of the Arc, and hyper passes every request of a connection to     *)
(* OscQueryStatic::call.  A body is <<"json", value>> for the JSON text of *)
(* a value and <<"text", s>> for the string s.                             *)

MaxConns == 2

(* mk_response(s): status 200 with the header Content-Type *)
mk_response(s) ==
    [status |-> 200, content_type |-> Some("application/json"), body |-> s]

(* Response::builder().status(status).body(body) *)
Response_status(status, body) ==
    [status |-> status, content_type |-> None, body |-> <<"text", body>>]

(* serde_json::to_value(node).unwrap().get(key).unwrap(): both unwraps are *)
(* taken, and the second one panics when the object has no such member.    *)
to_value_get(node, key) ==
    LET value == serde_json_to_value(node)
    IN  IF value.panic THEN Panicked
        ELSE LET member == JsonGet(value.out[1], key)
             IN  IF member = None THEN Panicked ELSE Completed(member[1])

(* OscQueryStatic::call on the request with this path and this query *)
call(self_root, path, query) ==
    LET found == get(self_root, path)
    IN  IF found.ok
        THEN LET node == found.node[1]
             IN  IF query # None
                 THEN CASE query[1] = "HOST_INFO" ->
                             LET member == to_value_get(node, "HOST_INFO")
                             IN  IF member.panic THEN Panicked
                                 ELSE Completed(mk_response(<<"json", member.out[1]>>))
                        [] query[1] = "VALUE" ->
                             LET member == to_value_get(node, "VALUE")
                             IN  IF member.panic THEN Panicked
                                 ELSE Completed(mk_response(
                                          <<"json", << <<"VALUE", member.out[1]>> >> >>))
                        [] query[1] = "TYPE" ->
                             LET member == to_value_get(node, "TYPE")
                             IN  IF member.panic THEN Panicked
                                 ELSE Completed(mk_response(<<"json", member.out[1]>>))
                        [] OTHER ->
                             Completed(Response_status(204, "not supported"))
                 ELSE LET value == serde_json_to_value(node)
                      IN  IF value.panic THEN Panicked
                          ELSE Completed(mk_response(<<"json", value.out[1]>>))
        ELSE Completed(Response_status(404, "Not Found"))

(* The trees handed to run_oscquery_service: one terminal node, one        *)
(* container with a terminal node, a value of a kind without payload, and  *)
(* an empty root without host information.                                 *)
ServeRoots ==
    {add(OSCNode_root(Some(HostInfo)), Full(<<"/", "a">>)),
     add(OSCNode_root(Some(HostInfo)), Plain(<<"/", "a", "/", "b">>)),
     add(OSCNode_root(Some(HostInfo)),
         OscQueryParameter_new(<<"/", "a", "/", "b">>, OscType("Nil", None))),
     OSCNode_root(None)}

(* req.uri().path() *)
RequestPaths == {<<"/">>, <<"/", "a">>, <<"/", "a", "/", "b">>}

(* req.uri().query() *)
RequestQueries ==
    {None, Some("HOST_INFO"), Some("VALUE"), Some("TYPE"), Some("ACCESS"),
     Some("value")}

ServeInit ==
    /\ root \in ServeRoots
    /\ hist = <<>>
    /\ lookup = NoLookup
    /\ ser = None
    /\ UnitIdle /\ TypeIdle /\ HostIdle /\ ServeIdle

(* listener.accept() and tokio::task::spawn of serve_connection *)
Accept ==
    /\ Len(conns) < MaxConns
    /\ conns' = Append(conns, [req |-> None, res |-> None])
    /\ UNCHANGED <<root, notServe>>

(* A request arrives on connection c (keep_alive: after the response to *)
(* the previous one); a task whose handler panicked is gone.            *)
Receive(c, path, query) ==
    /\ c \in 1..Len(conns)
    /\ conns[c].req = None \/ conns[c].res # None
    /\ ~(conns[c].res # None /\ conns[c].res[1].panic)
    /\ conns' = [conns EXCEPT ![c] =
                    [req |-> Some([path |-> path, query |-> query]), res |-> None]]
    /\ UNCHANGED <<root, notServe>>

Call_Writes(c) ==
    /\ c \in 1..Len(conns)
    /\ conns[c].req # None
    /\ conns[c].res = None
    /\ conns' = [conns EXCEPT ![c].res =
                    Some(call(root, conns[c].req[1].path, conns[c].req[1].query))]
    /\ root' = [root EXCEPT !.description = <<"x">>]
    /\ UNCHANGED notServe

(* The task of connection c runs OscQueryStatic::call on its request and *)
(* answers with the result.                                              *)
Call(c) ==
    /\ c \in 1..Len(conns)
    /\ conns[c].req # None
    /\ conns[c].res = None
    /\ conns' = [conns EXCEPT ![c].res =
                    Some(call(root, conns[c].req[1].path, conns[c].req[1].query))]
    /\ UNCHANGED <<root, notServe>>

ServeNext ==
    \/ Accept
    \/ \E c \in 1..MaxConns, path \in RequestPaths, query \in RequestQueries :
           Receive(c, path, query)
    \/ \E c \in 1..MaxConns : Call(c)

SpecServe == ServeInit /\ [][ServeNext]_vars

-----------------------------------------------------------------------------
(* The builder: OscHostInfo::new(name, ip, port), then with_ext_* calls, *)
(* each of which consumes the value and returns it                       *)

HostNames == {"Server", "My OSC Server"}

HostIps == {"127.0.0.1"}

HostPorts == {9000, 65535}

HostNew(device_name, osc_ip, osc_port) ==
    /\ host' = OscHostInfo_new(device_name, osc_ip, osc_port)
    /\ host_args' = <<device_name, osc_ip, osc_port>>
    /\ host_calls' = {}
    /\ UNCHANGED notHost

WithExtAccess ==
    /\ host' = with_ext_access(host)
    /\ host_calls' = host_calls \cup {"with_ext_access"}
    /\ UNCHANGED <<host_args, notHost>>

WithExtClipmode ==
    /\ host' = with_ext_clipmode(host)
    /\ host_calls' = host_calls \cup {"with_ext_clipmode"}
    /\ UNCHANGED <<host_args, notHost>>

WithExtCritical ==
    /\ host' = with_ext_critical(host)
    /\ host_calls' = host_calls \cup {"with_ext_critical"}
    /\ UNCHANGED <<host_args, notHost>>

WithExtDescription ==
    /\ host' = with_ext_description(host)
    /\ host_calls' = host_calls \cup {"with_ext_description"}
    /\ UNCHANGED <<host_args, notHost>>

WithExtExtendedType ==
    /\ host' = with_ext_extended_type(host)
    /\ host_calls' = host_calls \cup {"with_ext_extended_type"}
    /\ UNCHANGED <<host_args, notHost>>

WithExtListen ==
    /\ host' = with_ext_listen(host)
    /\ host_calls' = host_calls \cup {"with_ext_listen"}
    /\ UNCHANGED <<host_args, notHost>>

WithExtPathChanged ==
    /\ host' = with_ext_path_changed(host)
    /\ host_calls' = host_calls \cup {"with_ext_path_changed"}
    /\ UNCHANGED <<host_args, notHost>>

WithExtRange ==
    /\ host' = with_ext_range(host)
    /\ host_calls' = host_calls \cup {"with_ext_range"}
    /\ UNCHANGED <<host_args, notHost>>

WithExtTags ==
    /\ host' = with_ext_tags(host)
    /\ host_calls' = host_calls \cup {"with_ext_tags"}
    /\ UNCHANGED <<host_args, notHost>>

WithExtUnit ==
    /\ host' = with_ext_unit(host)
    /\ host_calls' = host_calls \cup {"with_ext_unit"}
    /\ UNCHANGED <<host_args, notHost>>

WithExtValue ==
    /\ host' = with_ext_value(host)
    /\ host_calls' = host_calls \cup {"with_ext_value"}
    /\ UNCHANGED <<host_args, notHost>>

HostNext ==
    \/ \E device_name \in HostNames, osc_ip \in HostIps, osc_port \in HostPorts :
           HostNew(device_name, osc_ip, osc_port)
    \/ WithExtAccess
    \/ WithExtClipmode
    \/ WithExtCritical
    \/ WithExtDescription
    \/ WithExtExtendedType
    \/ WithExtListen
    \/ WithExtPathChanged
    \/ WithExtRange
    \/ WithExtTags
    \/ WithExtUnit
    \/ WithExtValue

SpecHost == Init /\ [][HostNext]_vars

-----------------------------------------------------------------------------
(* The type codec: osc_type_deserialize on a TYPE string, then *)
(* osc_type_serialize on the values it returned                *)

MaxTagLen == 2

(* The thirteen tags and two characters that are no tags. *)
TagChars == TypeArms \cup {"x", "F"}

TagStrings == UNION {[1..n -> TagChars] : n \in 0..MaxTagLen}

(* One run of the codec: the TYPE string that serde hands over. *)
TypeInput(s) ==
    /\ type_str = None
    /\ type_str' = Some(s)
    /\ type_res' = None
    /\ type_enc' = None
    /\ UNCHANGED notType

TypeDeserialize ==
    /\ type_str # None
    /\ type_res = None
    /\ type_res' = Some(osc_type_deserialize(type_str[1]))
    /\ UNCHANGED <<type_str, type_enc, notType>>

TypeSerialize ==
    /\ type_res # None
    /\ type_res[1].ok
    /\ type_enc = None
    /\ LET v == type_res[1].vec[1]
       IN  type_enc' = Some(IF osc_type_serialize_todo(v) THEN Panicked
                            ELSE Completed(osc_type_serialize(v)))
    /\ UNCHANGED <<type_str, type_res, notType>>

TypeNext ==
    \/ \E s \in TagStrings : TypeInput(s)
    \/ TypeDeserialize
    \/ TypeSerialize

SpecType == Init /\ [][TypeNext]_vars

-----------------------------------------------------------------------------
(* Properties of the tree *)

(* "/" followed by the keys of a position joined by "/". *)
ExpectedFullPath(pos) == <<"/">> \o Join(pos, "/")

(* C1: after any sequence of Insert calls on a root made by OSCNode::root,  *)
(* every node of the tree, terminal or lazily created, has full_path equal  *)
(* to "/" followed by the keys on the path from the root joined by "/".     *)
C1_FullPathIsPosition ==
    \A pos \in Positions(root) :
        NodeAt(root, pos).full_path = ExpectedFullPath(pos)

(* C2: in every reachable state, for every node: if types is present then   *)
(* values is present with the same length, and ranges and units, when       *)
(* present, are non-empty and no longer than types.                         *)
C2_ChannelsParallel ==
    \A pos \in Positions(root) :
        LET n == NodeAt(root, pos)
        IN  /\ n.osc_type # None =>
                  n.value # None /\ Len(n.value[1]) = Len(n.osc_type[1])
            /\ n.range # None =>
                  /\ Len(n.range[1]) >= 1
                  /\ n.osc_type # None
                  /\ Len(n.range[1]) <= Len(n.osc_type[1])
            /\ n.unit # None =>
                  /\ Len(n.unit[1]) >= 1
                  /\ n.osc_type # None
                  /\ Len(n.unit[1]) <= Len(n.osc_type[1])

(* A node with three channels of which two carry a unit and one a range. *)
C2_Witness ==
    \E pos \in Positions(root) :
        LET n == NodeAt(root, pos)
        IN  /\ Len(Vec(n.osc_type)) = 3
            /\ Len(Vec(n.value)) = 3
            /\ Len(Vec(n.unit)) = 2
            /\ Len(Vec(n.range)) = 1

(* C3: an Insert never changes the channels that are there: at every node   *)
(* the former types, values, units and ranges are prefixes of the new ones, *)
(* and at the node that takes the parameter the new value and its type tag  *)
(* are the last elements; Float 1.0 then Float 2.0 at one address give TYPE *)
(* "ff" and VALUE [1.0, 2.0].                                               *)
C3_InsertAppends ==
    /\ [](\A a \in Addresses :
             hist = <<Plain(a), Full(a)>> =>
                 \E pos \in Positions(root) :
                     LET n == NodeAt(root, pos)
                     IN  /\ n.osc_type # None /\ n.value # None
                         /\ osc_type_serialize(n.osc_type[1]) = <<"f", "f">>
                         /\ osc_value_serialize(n.value[1]) = <<1, 2>>)
    /\ [][hist' # hist =>
            LET p == hist'[Len(hist')]
            IN  /\ \A pos \in Positions(root) :
                       /\ pos \in Positions(root')
                       /\ IsPrefix(Vec(NodeAt(root, pos).osc_type),
                                   Vec(NodeAt(root', pos).osc_type))
                       /\ IsPrefix(Vec(NodeAt(root, pos).value),
                                   Vec(NodeAt(root', pos).value))
                       /\ IsPrefix(Vec(NodeAt(root, pos).unit),
                                   Vec(NodeAt(root', pos).unit))
                       /\ IsPrefix(Vec(NodeAt(root, pos).range),
                                   Vec(NodeAt(root', pos).range))
                /\ \E pos \in Positions(root') :
                       LET types == Vec(NodeAt(root', pos).osc_type)
                           values == Vec(NodeAt(root', pos).value)
                           before == IF pos \in Positions(root)
                                     THEN Len(Vec(NodeAt(root, pos).osc_type))
                                     ELSE 0
                       IN  /\ Len(types) = before + 1
                           /\ Len(values) = before + 1
                           /\ TypeTag(types[Len(types)]) = TypeTag(p.value)
                           /\ values[Len(values)] = p.value]_vars

(* Float 1.0 then Float 2.0 went to one address: TYPE "ff", VALUE [1, 2]. *)
C3_Witness ==
    /\ Len(hist) = 2
    /\ hist[1].address = hist[2].address
    /\ hist[1].value = OscType("Float", 1)
    /\ hist[2].value = OscType("Float", 2)
    /\ \E pos \in Positions(root) :
           LET n == NodeAt(root, pos)
           IN  /\ osc_type_serialize(Vec(n.osc_type)) = <<"f", "f">>
               /\ osc_value_serialize(Vec(n.value)) = <<1, 2>>

(* C4: the tree only grows: across every step the positions of the tree     *)
(* after the step include those before it, and the number of channels at    *)
(* every node never decreases.                                              *)
C4_TreeOnlyGrows ==
    [][root' # root =>
          /\ Positions(root) \subseteq Positions(root')
          /\ \A pos \in Positions(root) :
                 /\ Len(Vec(NodeAt(root', pos).osc_type))
                        >= Len(Vec(NodeAt(root, pos).osc_type))
                 /\ Len(Vec(NodeAt(root', pos).value))
                        >= Len(Vec(NodeAt(root, pos).value))]_vars

(* Three inserts made a tree of two siblings, one of them with two channels. *)
C4_Witness ==
    /\ Len(hist) = 3
    /\ Cardinality(Positions(root)) = 3
    /\ \E pos \in Positions(root) : Len(Vec(NodeAt(root, pos).osc_type)) = 2

(* The permutations of 1..n, and a root built from parameters in order. *)
Permutations_of(n) ==
    {f \in [1..n -> 1..n] : \A i, j \in 1..n : f[i] = f[j] => i = j}

RECURSIVE AddAll(_, _)
AddAll(node, parameters) ==
    IF parameters = <<>> THEN node
    ELSE AddAll(add(node, Head(parameters)), Tail(parameters))

(* C5: for parameters with pairwise distinct addresses, inserting them into *)
(* a fresh root in every possible order yields the same serialized tree.    *)
C5_OrderIndependent ==
    (\A i, j \in 1..Len(hist) : hist[i].address = hist[j].address => i = j) =>
        \A f \in Permutations_of(Len(hist)) :
            OSCNode_serialize(
                AddAll(OSCNode_root(Some(HostInfo)),
                       [i \in 1..Len(hist) |-> hist[f[i]]]))
            = OSCNode_serialize(root)

(* C6: Lookup("/") on a fresh root returns the root, and Lookup of every    *)
(* address string that was passed to Insert succeeds and returns a node     *)
(* whose full_path is that address string.                                  *)
C6_LookupIdentity ==
    lookup # NoLookup =>
        LET path == lookup[1].path
            result == lookup[1].result
        IN  /\ (hist = <<>> /\ path = <<"/">>) =>
                   result.ok /\ result.node = Some(root)
            /\ (\E i \in 1..Len(hist) : hist[i].address = path) =>
                   result.ok /\ result.node[1].full_path = path

(* C7: whenever Lookup(path) fails, at any depth, the error is BadAddress   *)
(* carrying the path string that the caller passed to Lookup.               *)
C7_BadAddressNamesPath ==
    (lookup # NoLookup /\ ~lookup[1].result.ok) =>
        lookup[1].result.err = Some(lookup[1].path)

-----------------------------------------------------------------------------
(* Properties of the unit codec *)

(* C8: for every member of every unit category, decoding the string that    *)
(* encoding the unit produced succeeds and returns the same unit.           *)
C8_UnitRoundTrip ==
    (unit_in # None /\ unit_res # None) =>
        unit_res[1].ok /\ unit_res[1].unit = unit_in

(* The lowercase name of a category. *)
LowercaseCategory(cat) ==
    CASE cat = "Distance" -> <<"d", "i", "s", "t", "a", "n", "c", "e">>
      [] cat = "Angle"    -> <<"a", "n", "g", "l", "e">>
      [] cat = "Gain"     -> <<"g", "a", "i", "n">>
      [] cat = "Time"     -> <<"t", "i", "m", "e">>
      [] cat = "Speed"    -> <<"s", "p", "e", "e", "d">>

(* C9: no two distinct units encode to the same string, and every encoded   *)
(* string is the lowercase category name, a dot, and a member abbreviation. *)
C9_EncodeInjective ==
    unit_in # None =>
        /\ \A other \in OSCUnit :
               OSCUnit_serialize(other) = unit_str[1] => other = unit_in[1]
        /\ LET parts == Split(unit_str[1], ".")
           IN  /\ Len(parts) = 2
               /\ parts[1] = LowercaseCategory(unit_in[1].cat)
               /\ parts[2] # <<>>

(* Speed(KilometersPerHour) was encoded as "speed.km/h". *)
C9_Witness ==
    /\ unit_in = Some(Unit("Speed", "KilometersPerHour"))
    /\ unit_str = Some(<<"s", "p", "e", "e", "d", ".", "k", "m", "/", "h">>)

(* C10: decoding a string whose text before the first "." is none of the    *)
(* five categories fails naming exactly that text; decoding                 *)
(* "<category>.<member>" with a known category and an unknown member fails  *)
(* naming the member; neither yields a unit.                                *)
C10_DecodeErrorNamesToken ==
    unit_res # None =>
        LET parts == Split(unit_str[1], ".")
            result == unit_res[1]
            known == \E u \in OSCUnit : LowercaseCategory(u.cat) = parts[1]
        IN  /\ ~known =>
                   ~result.ok /\ result.variant = Some(parts[1])
            /\ (known /\ Len(parts) = 2
                      /\ \A u \in OSCUnit :
                             OSCUnit_deserialize(unit_str[1]) # UnitOk(u)) =>
                   ~result.ok /\ result.variant = Some(parts[2])

-----------------------------------------------------------------------------
(* Properties of the type codec *)

(* The tag table: the kind of value that each tag stands for. *)
TagTable ==
    {<<"i", "Int">>, <<"f", "Float">>, <<"s", "String">>, <<"b", "Blob">>,
     <<"t", "Time">>, <<"l", "Long">>, <<"d", "Double">>, <<"c", "Char">>,
     <<"r", "Color">>, <<"m", "Midi">>, <<"T", "Bool">>, <<"N", "Nil">>,
     <<"I", "Inf">>}

OverTagTable(s) == \A i \in 1..Len(s) : \E e \in TagTable : e[1] = s[i]

(* C11: decoding a non-empty string of tags of the table yields one value  *)
(* per character, in order, each of the kind that the table gives for its  *)
(* tag, and encoding these values yields the string again.                 *)
C11_TypeTagRoundTrip ==
    (type_res # None /\ type_str[1] # <<>> /\ OverTagTable(type_str[1])) =>
        LET s == type_str[1]
            result == type_res[1]
        IN  /\ result.ok
            /\ result.vec # None
            /\ Len(result.vec[1]) = Len(s)
            /\ \A i \in 1..Len(s) : <<s[i], result.vec[1][i].kind>> \in TagTable
            /\ type_enc # None => ~type_enc[1].panic /\ type_enc[1].out = Some(s)

C11_Witness ==
    /\ type_str = Some(<<"d", "N">>)
    /\ type_res # None
    /\ type_enc = Some(Completed(<<"d", "N">>))

(* C12: decoding fails exactly when the string is empty or holds a         *)
(* character that is no tag of the table; a failure carries no values, and *)
(* for a non-empty string it names the first character that is no tag.     *)
C12_TypeDecodeErrors ==
    type_res # None =>
        LET s == type_str[1]
            result == type_res[1]
            bad == {i \in 1..Len(s) : ~OverTagTable(<<s[i]>>)}
        IN  /\ ~result.ok <=> (s = <<>> \/ bad # {})
            /\ ~result.ok => result.vec = None
            /\ result.ok => result.vec # None
            /\ bad # {} =>
                   LET first == CHOOSE i \in bad : \A j \in bad : i <= j
                   IN  result.variant = Some(s[first])

C12_Witness ==
    /\ type_str = Some(<<"F", "x">>)
    /\ type_res # None
    /\ ~type_res[1].ok
    /\ type_res[1].variant = Some("F")

-----------------------------------------------------------------------------
(* Properties of serialization *)

(* C13: every node of the tree has one of the four access values, its     *)
(* serialized object has the member ACCESS with an integer from 0 to 3,   *)
(* and the node of a parameter built without with_access has NoAccess.    *)
C13_AccessAlwaysPresent ==
    /\ \A pos \in Positions(root) :
           LET node == NodeAt(root, pos)
           IN  /\ node.access # None
               /\ node.access[1] \in {"NoAcces", "Read", "Write", "ReadWrite"}
               /\ JsonGet(OSCNode_serialize(node), "ACCESS") \in {Some(n) : n \in 0..3}
    /\ (hist # <<>> /\ hist[Len(hist)].access = None) =>
           LET found == get(root, hist[Len(hist)].address)
           IN  found.ok => found.node[1].access = Some("NoAcces")

(* C14: serializing a node that holds values of any kind of the tag table, *)
(* or an ancestor of such a node, completes; where the node has channels,  *)
(* its object has a VALUE array with one payload per channel, as long as   *)
(* its TYPE string.                                                        *)
C14_SerializeCompletes ==
    ser # None =>
        LET node == get(root, ser[1].path).node[1]
            outcome == ser[1].outcome
        IN  /\ ~outcome.panic
            /\ node.value # None =>
                   LET type == JsonGet(outcome.out[1], "TYPE")
                       value == JsonGet(outcome.out[1], "VALUE")
                   IN  /\ type # None
                       /\ value # None
                       /\ Len(value[1]) = Len(node.value[1])
                       /\ Len(value[1]) = Len(type[1])

(* The integers of the four access values; a parameter whose access was *)
(* never set stands for NoAccess.                                       *)
AccessInteger(access) ==
    IF access = None THEN 0
    ELSE CASE access[1] = "NoAcces"   -> 0
           [] access[1] = "Read"      -> 1
           [] access[1] = "Write"     -> 2
           [] access[1] = "ReadWrite" -> 3

(* C15: after one parameter p was added to a fresh root, serializing the   *)
(* node at p.address completes, and its object has TYPE, the one tag of    *)
(* p.value, VALUE, the one payload of p.value, ACCESS, the integer of      *)
(* p.access, RANGE [{MIN, MAX}] exactly when p has a range, UNIT [string   *)
(* of the unit] exactly when p has a unit, and neither CONTENTS nor        *)
(* HOST_INFO.                                                              *)
C15_OneParameterEncoding ==
    (Len(hist) = 1 /\ ser # None /\ ser[1].path = hist[1].address) =>
        LET p == hist[1]
            outcome == ser[1].outcome
        IN  /\ ~outcome.panic
            /\ LET json == outcome.out[1]
                   type == JsonGet(json, "TYPE")
               IN  /\ type # None /\ Len(type[1]) = 1
                   /\ <<type[1][1], p.value.kind>> \in TagTable
                   /\ JsonGet(json, "VALUE") = Some(<<p.value.payload>>)
                   /\ JsonGet(json, "ACCESS") = Some(AccessInteger(p.access))
                   /\ JsonGet(json, "RANGE") =
                          IF p.range # None
                          THEN Some(<< << <<"MIN", p.range[1].Min>>,
                                          <<"MAX", p.range[1].Max>> >> >>)
                          ELSE None
                   /\ JsonGet(json, "UNIT") =
                          IF p.unit # None THEN Some(<<OSCUnit_fmt(p.unit[1])>>)
                          ELSE None
                   /\ p = Full(<<"/", "a">>) =>
                          /\ type = Some(<<"f">>)
                          /\ JsonGet(json, "UNIT") =
                                 Some(<< <<"d", "i", "s", "t", "a", "n", "c", "e",
                                           ".", "c", "m">> >>)
                          /\ JsonGet(json, "ACCESS") = Some(3)
                   /\ JsonGet(json, "CONTENTS") = None
                   /\ JsonGet(json, "HOST_INFO") = None

-----------------------------------------------------------------------------
(* Properties of the service *)

(* The connections whose request has been handled. *)
Handled == {c \in 1..Len(conns) : conns[c].req # None /\ conns[c].res # None}

(* C16: a handled request has the response 404 when its path is not in the *)
(* tree, whatever the query; the serialized node when the path is in the   *)
(* tree and there is no query; and 204 when the path is in the tree and    *)
(* the query is none of HOST_INFO, VALUE and TYPE.                         *)
C16_RequestClassification ==
    \A c \in Handled :
        LET req == conns[c].req[1]
            res == conns[c].res[1]
            found == get(root, req.path)
        IN  /\ ~found.ok => ~res.panic /\ res.out[1].status = 404
            /\ (found.ok /\ req.query = None) =>
                   /\ ~res.panic
                   /\ res.out[1].status = 200
                   /\ res.out[1].body = <<"json", OSCNode_serialize(found.node[1])>>
            /\ (found.ok /\ req.query # None
                          /\ req.query[1] \notin {"HOST_INFO", "VALUE", "TYPE"}) =>
                   ~res.panic /\ res.out[1].status = 204

(* C17: a handled request for a path of the tree with the query VALUE,     *)
(* TYPE or HOST_INFO has a response, which carries {"VALUE": array}, the   *)
(* TYPE string or the HOST_INFO object of the node.                        *)
C17_MemberQueriesAnswered ==
    \A c \in Handled :
        LET req == conns[c].req[1]
            res == conns[c].res[1]
            found == get(root, req.path)
        IN  (found.ok /\ req.query \in {Some("VALUE"), Some("TYPE"), Some("HOST_INFO")}) =>
               /\ ~res.panic
               /\ LET json == OSCNode_serialize(found.node[1])
                      member == JsonGet(json, req.query[1])
                  IN  /\ member # None
                      /\ res.out[1].body =
                             IF req.query[1] = "VALUE"
                             THEN <<"json", << <<"VALUE", member[1]>> >> >>
                             ELSE <<"json", member[1]>>

(* C18: no step of the service changes the tree, and in every state two *)
(* handled requests with the same path and the same query, on whichever *)
(* connections and however long ago, have the same outcome.             *)
C18_BuildThenServe ==
    [][/\ root' = root
       /\ \A c1, c2 \in {c \in 1..Len(conns') :
                              conns'[c].req # None /\ conns'[c].res # None} :
              conns'[c1].req = conns'[c2].req => conns'[c1].res = conns'[c2].res]_vars

C18_Witness ==
    /\ Len(conns) = 2
    /\ conns[1].req = Some([path |-> <<"/", "a">>, query |-> Some("VALUE")])
    /\ conns[2].req = conns[1].req
    /\ conns[1].res # None /\ ~conns[1].res[1].panic
    /\ conns[2].res = conns[1].res

-----------------------------------------------------------------------------
(* Properties of the channels of a node *)

(* The parameters added at the address of a position, in the order of *)
(* their insertion: parameter i gave the node its value i.            *)
ParametersAt(pos) ==
    SelectSeq(hist, LAMBDA p : p.address = ExpectedFullPath(pos))

(* C20: for every node and every index i of its units (ranges), the unit *)
(* (range) at i is the one of the parameter that gave the node its value *)
(* at i.                                                                 *)
C20_UnitsRangesPositional ==
    \A pos \in Positions(root) :
        LET node == NodeAt(root, pos)
            given == ParametersAt(pos)
        IN  /\ node.unit # None =>
                   \A i \in 1..Len(node.unit[1]) :
                       /\ i <= Len(given)
                       /\ node.value[1][i] = given[i].value
                       /\ given[i].unit = Some(node.unit[1][i])
            /\ node.range # None =>
                   \A i \in 1..Len(node.range[1]) :
                       /\ i <= Len(given)
                       /\ node.value[1][i] = given[i].value
                       /\ given[i].range = Some(node.range[1][i])

-----------------------------------------------------------------------------
(* Properties of the builder *)

(* The eleven extension flags, each with the operation that enables it. *)
EnablingOperation ==
    {<<"access", "with_ext_access">>, <<"clipmode", "with_ext_clipmode">>,
     <<"critical", "with_ext_critical">>, <<"description", "with_ext_description">>,
     <<"extended_type", "with_ext_extended_type">>, <<"listen", "with_ext_listen">>,
     <<"path_changed", "with_ext_path_changed">>, <<"range", "with_ext_range">>,
     <<"tags", "with_ext_tags">>, <<"unit", "with_ext_unit">>,
     <<"value", "with_ext_value">>}

(* C19: after OscHostInfo::new(name, ip, port) and any sequence of        *)
(* with_ext_* calls the transport is "UDP", name, ip and port are the      *)
(* ones given, there are eleven flags, and a flag is true exactly when its *)
(* own operation was called: none after new, and each call sets its own    *)
(* flag and no other.                                                     *)
C19_HostInfoBuilder ==
    /\ host.osc_trans = "UDP"
    /\ <<host.name, host.osc_ip, host.osc_port>> = host_args
    /\ DOMAIN host.extension = {e[1] : e \in EnablingOperation}
    /\ \A e \in EnablingOperation : host.extension[e[1]] <=> e[2] \in host_calls

C19_Witness ==
    /\ host_args = <<"My OSC Server", "127.0.0.1", 65535>>
    /\ host_calls = {"with_ext_clipmode", "with_ext_value"}
    /\ host.extension.clipmode /\ host.extension.value
    /\ ~host.extension.critical /\ ~host.extension.access

-----------------------------------------------------------------------------
(* Properties of addresses and paths *)

(* C21: no node of the tree has the empty string as a child key, and a    *)
(* parameter whose address does not begin with "/" has its first segment  *)
(* as a child key of the root: only the empty segment before a leading    *)
(* "/" is dropped.                                                        *)
C21_NonEmptySegments ==
    /\ \A pos \in Positions(root) : \A i \in 1..Len(pos) : pos[i] # <<>>
    /\ \A i \in 1..Len(hist) :
           LET first == Head(Split(hist[i].address, "/"))
           IN  first # <<>> => <<first>> \in Positions(root)

(* C22: when Lookup resolves a path, it resolves the path followed by "/" *)
(* to the same node; on every node of the tree Lookup("/") and Lookup("") *)
(* return that node, and so does Lookup of a path that has nothing, or    *)
(* nothing but "/", after its first segment.                              *)
C22_LookupStopsAtEmptySegment ==
    /\ (lookup # NoLookup /\ lookup[1].result.ok) =>
           get(root, Append(lookup[1].path, "/")) = lookup[1].result
    /\ \A pos \in Positions(root) :
           LET node == NodeAt(root, pos)
           IN  \A path \in {<<"/">>, <<>>, <<"a">>, <<"a", "/">>} :
                   get(node, path) = Ok(node)

C22_Witness ==
    /\ lookup # NoLookup
    /\ lookup[1].path = <<"/", "a", "/", "b">>
    /\ lookup[1].result.ok
    /\ lookup[1].result.node[1].osc_type # None
    /\ get(root, <<"/", "a", "/", "b", "/">>) = lookup[1].result

(* C23: every node that holds channels has the description and the access *)
(* of the most recent parameter added at the node's address, whatever the  *)
(* earlier parameters at that address carried; the description is empty    *)
(* when that parameter set none.                                           *)
C23_MetadataLastWriteWins ==
    \A pos \in Positions(root) :
        LET node == NodeAt(root, pos)
            at == {i \in 1..Len(hist) : hist[i].address = node.full_path}
        IN  node.osc_type # None =>
               /\ at # {}
               /\ LET last == CHOOSE i \in at : \A j \in at : j <= i
                  IN  /\ node.description = hist[last].description
                      /\ node.access = hist[last].access

C23_Witness ==
    /\ hist = <<Full(<<"/", "a">>), Plain(<<"/", "a">>)>>
    /\ NodeAt(root, << <<"a">> >>).description = <<>>
    /\ NodeAt(root, << <<"a">> >>).access = None

(* The child keys of a node. *)
ChildKeys(node) == IF node.contents = None THEN {} ELSE DOMAIN node.contents[1]

(* C24: a step that adds a parameter changes only nodes on the path that   *)
(* the step walks from the root to the parameter's node, which for an      *)
(* address of non-empty segments after a leading "/" is the sequence of    *)
(* these segments.  A node off that path keeps all its                     *)
(* fields; a proper ancestor of the parameter's node that was there keeps  *)
(* description, access, full_path, channels and host_info and gains at     *)
(* most the one child on the path; a proper ancestor made by the step has  *)
(* the empty description, NoAccess, no channels and no host_info; and no   *)
(* node but the root has host_info.                                        *)
C24_InsertFrame ==
    [][root' # root =>
          LET parameter == hist'[Len(hist')]
              path == Tail(Split(parameter.address, "/"))
          IN  /\ parameter.address \in WellFormedAddresses =>
                     ExpectedFullPath(path) = parameter.address
              /\ \A pos \in Positions(root') :
                  LET after == NodeAt(root', pos)
                  IN  /\ pos # <<>> => after.host_info = None
                      /\ ~IsPrefix(pos, path) =>
                             pos \in Positions(root) /\ after = NodeAt(root, pos)
                      /\ (IsPrefix(pos, path) /\ pos # path) =>
                             IF pos \in Positions(root)
                             THEN LET before == NodeAt(root, pos)
                                  IN  /\ after.description = before.description
                                      /\ after.access = before.access
                                      /\ after.full_path = before.full_path
                                      /\ after.osc_type = before.osc_type
                                      /\ after.value = before.value
                                      /\ after.range = before.range
                                      /\ after.unit = before.unit
                                      /\ after.host_info = before.host_info
                                      /\ ChildKeys(before) \subseteq ChildKeys(after)
                                      /\ ChildKeys(after) \ ChildKeys(before)
                                             \subseteq {path[Len(pos) + 1]}
                             ELSE /\ after.description = <<>>
                                  /\ after.access = Some("NoAcces")
                                  /\ after.osc_type = None
                                  /\ after.value = None
                                  /\ after.range = None
                                  /\ after.unit = None
                                  /\ after.host_info = None]_vars

(* A parameter was added four levels deep beside an existing node: three *)
(* ancestors were made on the way, and the sibling was left alone.       *)
C24_Witness ==
    /\ hist = <<Full(<<"/", "a">>), Plain(<<"/", "b">>),
                Plain(<<"/", "a", "/", "b", "/", "a", "/", "b">>)>>
    /\ NodeAt(root, << <<"a">>, <<"b">>, <<"a">> >>).access = Some("NoAcces")
    /\ NodeAt(root, << <<"a">> >>).description = <<"d">>
    /\ NodeAt(root, << <<"b">> >>).value = Some(<<OscType("Float", 1)>>)

=============================================================================
